---- MODULE Spec2Model ----
(***************************************************************************)
(* State-machine model of the resilient Oracle connection pool             *)
(* (app/infrastructure/db/oracle.py): the error classifier, and the        *)
(* connect / _safe_close_pool / acquire / close operations of OraclePool,  *)
(* run by concurrent threads, one step per shared-memory access or driver  *)
(* call; of its users, OracleUserRepository and the unit of work; and of   *)
(* the CommandBus.                                                         *)
(***************************************************************************)
EXTENDS Integers, Sequences, FiniteSets, TLC

\* ---------------------------------------------------------------- bounds
MaxHandles == 2      \* underlying pools the driver can create in one run
MaxRows == 2         \* rows the USERS table can take in one run
MaxRetry == 1        \* largest configured retry_attempts explored

\* two request threads: the pool's races are between a pair of callers
Threads == {1, 2}
Handles == 1..MaxHandles

\* self._pool = None, and an unheld lock
None == 0
\* code = None in _extract_error_info
NoCode == 0

VARIABLES
    pool,            \* self._pool: None or the stored handle
    lock,            \* self._lock: None or the thread that holds it
    hstate,          \* each underlying pool: "uncreated", "open" or "closed"
    retry_attempts,  \* self._retry_attempts
    op,              \* the public call each thread is in (or made last)
    pc,              \* each thread's position in the code
    attempt,         \* acquire's loop variable
    ref,             \* the value of self._pool loaded at line 111
    exc,             \* the exception in flight / last_exc
    result,          \* how the thread's last call ended
    raised,          \* the exception the last call raised
    cause,           \* its __cause__
    held,            \* the handle the thread holds a connection of, or None
    hist,            \* per call: what it did (observation only)
    outer,           \* the repository / unit-of-work call around the pool call
    users,           \* the USERS table: row i has id i and username users[i]
    handlers,        \* CommandBus._handlers
    bus,             \* the last CommandBus call and how it ended
    probe            \* the exception given to is_connection_error, its answer

\* what the pool's own code never touches
apart == <<users, handlers, bus, probe>>

vars == <<pool, lock, hstate, retry_attempts, op, pc, attempt, ref, exc,
          result, raised, cause, held, hist, outer, users, handlers, bus,
          probe>>

\* ------------------------------------------------------------ exceptions
\* A message is a sequence of one-character strings.
ToUpper == [a |-> "A", d |-> "D", i |-> "I", o |-> "O", p |-> "P",
            r |-> "R", y |-> "Y"]

Upper(msg) == [k \in 1..Len(msg) |->
                 IF msg[k] \in DOMAIN ToUpper THEN ToUpper[msg[k]] ELSE msg[k]]

Contains(sub, msg) ==
    \E k \in 0..(Len(msg) - Len(sub)) :
        \A j \in 1..Len(sub) : msg[k + j] = sub[j]

NoExc == [cls |-> "none", code |-> NoCode, msg |-> <<>>, at |-> 0]

\* ORA-03113: end-of-file on communication channel
ConnLost(n) == [cls |-> "DatabaseError", code |-> 3113,
                msg |-> <<"O","R","A","-","0","3","1","1","3">>, at |-> n]
\* DPY-1002: connection pool is not open (the driver reports no ORA code)
PoolNotOpen(n) == [cls |-> "InterfaceError", code |-> NoCode,
                   msg |-> <<"D","P","Y","-","1","0","0","2">>, at |-> n]
\* ORA-01017: invalid username/password
BadLogin(n) == [cls |-> "DatabaseError", code |-> 1017,
                msg |-> <<"O","R","A","-","0","1","0","1","7">>, at |-> n]
\* 'NoneType' object has no attribute 'acquire'
AttributeError(n) == [cls |-> "AttributeError", code |-> NoCode,
                      msg |-> <<"N","o","n","e","T","y","p","e">>, at |-> n]
DatabaseUnavailableError(n) ==
    [cls |-> "DatabaseUnavailableError", code |-> NoCode,
     msg |-> <<"u","n","a","v","a","i","l","a","b","l","e">>, at |-> n]

conn_codes == {3113, 3114, 1012, 12514, 12541, 12545, 12537, 12547}

Signatures == { <<"D","P","I","-">>, <<"D","P","Y","-">>,
                <<"O","R","A","-","1","2","5">>,
                <<"O","R","A","-","0","3","1","1","3">>,
                <<"O","R","A","-","0","3","1","1","4">>,
                <<"O","R","A","-","0","1","0","1","2">> }

\* (mutation) the class of the exception is not looked at
is_connection_error_any_class(e) ==
    \/ e.code \in conn_codes
    \/ \E s \in Signatures : Contains(s, Upper(e.msg))

is_connection_error(e) ==
    /\ e.cls \in {"DatabaseError", "InterfaceError"}
    /\ \/ e.code \in conn_codes
       \/ \E s \in Signatures : Contains(s, Upper(e.msg))

\* What the driver can raise from create_pool and from pool.acquire()
DriverErrors(n) == {ConnLost(n), BadLogin(n)}

\* ------------------------------------------------------------------ state
\* attempts, fails, resets, sleeps: counted over the call; first: how the
\* classifier judged the call's first failure; connected: the current attempt
\* went through connect(); creates, closes: driver calls of the current
\* connect() / _safe_close_pool(); pool0: self._pool when acquire() was called
NoHist == [attempts |-> 0, fails |-> 0, resets |-> 0, sleeps |-> 0,
           first |-> "none", connected |-> FALSE, creates |-> 0,
           closes |-> 0, pool0 |-> None, poolq |-> None, queries |-> 0,
           pcloses |-> 0, releases |-> 0, commits |-> 0, rollbacks |-> 0,
           qfail |-> "none", mine |-> 0, got |-> 0]

\* the classifier's verdict on e, noted for the call's first failure only
Judged(t, e) == IF hist[t].first # "none" THEN hist[t].first
                ELSE IF is_connection_error(e) THEN "conn" ELSE "other"

Busy(h) == \E t \in Threads : held[t] = h

\* ----------------------------------------------------------- CommandBus
\* Command and its subclasses; Special stands for a subclass of
\* CreateUserCommand, whose instances are CreateUserCommands too
Types == {"Command", "CreateUserCommand", "GetUserCommand", "Special"}
Handlers == {"handle_create_user", "handle_get_user"}

\* self._handlers = {}
NoHandlers == [c \in Types |-> "none"]
\* what a handler does with a command: the value it returns, or the error
\* it raises
Outcomes == {"User", "None", "DatabaseUnavailableError"}

\* the last call: register or execute; the command type it was about; res:
\* what the call gave its caller; ran: the handlers it invoked, in order;
\* gave: what the invoked handler gave
NoBus == [call |-> "none", type |-> "none", res |-> "none", ran |-> <<>>,
          gave |-> "none"]

\* -------------------------------------------------------------- probing
\* An exception as is_connection_error gets it: its class; its args: none,
\* a text, or the driver's error object with a code (or None) and a message;
\* message is that text or that message, and what str(exc) gives.
Classes == {"DatabaseError", "InterfaceError", "AttributeError",
            "DatabaseUnavailableError"}
Codes == conn_codes \cup {NoCode, 942, 1017}
Messages == { <<>>,
              <<"O","R","A","-","0","3","1","1","3">>,
              <<"o","r","a","-","0","3","1","1","4">>,
              <<"O","R","A","-","0","1","0","1","2">>,
              <<"O","R","A","-","1","2","5","4","1">>,
              <<"d","p","y","-","1","0","0","2">>,
              <<"D","P","I","-","1","0","8","0">>,
              <<"O","R","A","-","0","1","0","1","7">>,
              <<"O","R","A","-","0","0","9","4","2">>,
              <<"t","i","m","e","d"," ","o","u","t">> }

Exceptions ==
    { x \in [cls : Classes, args : {"none", "text", "err"}, code : Codes,
             message : Messages] :
        /\ x.args = "none" => x.code = NoCode /\ x.message = <<>>
        /\ x.args = "text" => x.code = NoCode }

\* code = None; message = str(exc); if exc.args: err = exc.args[0];
\* code = getattr(err, "code", None);
\* message = getattr(err, "message", message)
extract_error_info(x) ==
    IF x.args = "err" THEN <<x.code, x.message>> ELSE <<NoCode, x.message>>

\* is_connection_error(exc), from the exception down to the answer
Answer(x) ==
    LET info == extract_error_info(x)
    IN  is_connection_error([cls |-> x.cls, code |-> info[1],
                             msg |-> info[2], at |-> 0])

NoProbe == [exc |-> [cls |-> "none", args |-> "none", code |-> NoCode,
                     message |-> <<>>],
            answer |-> "none"]

\* self._pool = None: no pool has been created
Absent ==
    /\ pool = None
    /\ hstate = [h \in Handles |-> "uncreated"]

\* the rest of the object as constructed, and threads that have called
\* nothing yet
Started(active) ==
    /\ lock = None
    /\ retry_attempts \in -1..MaxRetry
    /\ op = [t \in Threads |-> "none"]
    /\ pc = [t \in Threads |-> IF t \in active THEN "idle" ELSE "off"]
    /\ attempt = [t \in Threads |-> 0]
    /\ ref = [t \in Threads |-> None]
    /\ exc = [t \in Threads |-> NoExc]
    /\ result = [t \in Threads |-> "none"]
    /\ raised = [t \in Threads |-> NoExc]
    /\ cause = [t \in Threads |-> NoExc]
    /\ held = [t \in Threads |-> None]
    /\ hist = [t \in Threads |-> NoHist]
    /\ outer = [t \in Threads |-> "none"]
    /\ users = <<>>
    /\ handlers = NoHandlers
    /\ bus = NoBus

\* The pool as constructed, used by the threads of `active`
InitFor(active) == Absent /\ Started(active)

Init == InitFor(Threads) /\ probe = NoProbe

\* one caller alone
InitSingle == InitFor({1}) /\ probe = NoProbe

\* ------------------------------------------------------- call and return
\* A public call begins: its record of what it did starts empty.
Call(t, name, at) ==
    /\ pc[t] = "idle"
    /\ op' = [op EXCEPT ![t] = name]
    /\ pc' = [pc EXCEPT ![t] = at]
    /\ result' = [result EXCEPT ![t] = "none"]
    /\ raised' = [raised EXCEPT ![t] = NoExc]
    /\ cause' = [cause EXCEPT ![t] = NoExc]
    /\ exc' = [exc EXCEPT ![t] = NoExc]
    /\ ref' = [ref EXCEPT ![t] = None]
    /\ UNCHANGED <<outer, apart>>

\* The call ends: res is "ok" (returned None), "conn" (returned a
\* connection) or "raise" (raised ex, whose __cause__ is cs).
Return(t, res, ex, cs) ==
    /\ pc' = [pc EXCEPT ![t] = IF outer[t] = "none" THEN "idle"
                               ELSE IF op[t] = "acquire" THEN "r_acquired"
                               ELSE "r_closed"]
    /\ result' = [result EXCEPT ![t] = res]
    /\ raised' = [raised EXCEPT ![t] = ex]
    /\ cause' = [cause EXCEPT ![t] = cs]
    /\ exc' = [exc EXCEPT ![t] = IF outer[t] = "none" THEN NoExc ELSE @]
    /\ ref' = [ref EXCEPT ![t] = None]
    /\ attempt' = [attempt EXCEPT ![t] = 0]
    /\ UNCHANGED <<outer, apart>>

\* pool0 is kept while the thread's call runs: its return step compares with it
Pool0After(t) == IF outer[t] = "none" THEN None ELSE hist[t].pool0

Returned(t) == hist' = [hist EXCEPT ![t].pool0 = Pool0After(t)]

Goto(t, at) ==
    /\ pc' = [pc EXCEPT ![t] = at]
    /\ UNCHANGED <<result, raised, cause, outer, apart>>

Fresh == IF \E h \in Handles : hstate[h] = "uncreated"
         THEN {CHOOSE h \in Handles :
                  /\ hstate[h] = "uncreated"
                  /\ \A g \in Handles : hstate[g] = "uncreated" => h <= g}
         ELSE {}

\* (mutation) a connection error is retried without resetting the pool
Except_no_reset(t, e) ==
    IF is_connection_error(e)
    THEN IF attempt[t] < 1 + retry_attempts
         THEN /\ Goto(t, "a_sleep")
              /\ exc' = [exc EXCEPT ![t] = e]
              /\ hist' = [hist EXCEPT ![t].fails = @ + 1,
                                       ![t].first = Judged(t, e)]
              /\ UNCHANGED <<attempt, ref>>
         ELSE /\ Return(t, "raise", DatabaseUnavailableError(attempt[t]), e)
              /\ hist' = [hist EXCEPT ![t].fails = @ + 1, ![t].pool0 = Pool0After(t),
                                       ![t].first = Judged(t, e)]
    ELSE /\ Return(t, "raise", e, NoExc)
         /\ hist' = [hist EXCEPT ![t].fails = @ + 1, ![t].pool0 = Pool0After(t),
                                  ![t].first = Judged(t, e)]

\* (mutation) every error is retried, not only connection errors
Except_retry_all(t, e) ==
    IF is_connection_error(e) \/ attempt[t] < 1 + retry_attempts
    THEN /\ Goto(t, "sc_lock")
         /\ exc' = [exc EXCEPT ![t] = e]
         /\ hist' = [hist EXCEPT ![t].fails = @ + 1, ![t].resets = @ + 1,
                                  ![t].closes = 0, ![t].first = Judged(t, e)]
         /\ UNCHANGED <<attempt, ref>>
    ELSE /\ Return(t, "raise", e, NoExc)
         /\ hist' = [hist EXCEPT ![t].fails = @ + 1, ![t].pool0 = Pool0After(t),
                                  ![t].first = Judged(t, e)]

\* except Exception as e: last_exc = e; if is_connection_error(e): go and
\* reset the pool; else re-raise e as it is
Except(t, e) ==
    IF is_connection_error(e)
    THEN /\ Goto(t, "sc_lock")
         /\ exc' = [exc EXCEPT ![t] = e]
         /\ hist' = [hist EXCEPT ![t].fails = @ + 1, ![t].resets = @ + 1,
                                  ![t].closes = 0, ![t].first = Judged(t, e)]
         /\ UNCHANGED <<attempt, ref>>
    ELSE /\ Return(t, "raise", e, NoExc)
         /\ hist' = [hist EXCEPT ![t].fails = @ + 1, ![t].pool0 = Pool0After(t),
                                  ![t].first = Judged(t, e)]

\* ------------------------------------------------------------ connect()
CallConnect(t) ==
    /\ Call(t, "connect", "c_lock")
    /\ hist' = [hist EXCEPT ![t] = NoHist]
    /\ UNCHANGED <<pool, lock, hstate, retry_attempts, attempt, held>>

\* with self._lock:
ConnectLock(t) ==
    /\ pc[t] = "c_lock"
    /\ lock = None
    /\ lock' = t
    /\ Goto(t, "c_create")
    /\ UNCHANGED <<pool, hstate, retry_attempts, op, attempt, ref, exc,
                   held, hist>>

\* self._pool = oracledb.create_pool(...)
CreateStores(t, h) ==
    /\ hstate' = [hstate EXCEPT ![h] = "open"]
    /\ pool' = h
    /\ hist' = [hist EXCEPT ![t].creates = @ + 1]
    /\ UNCHANGED exc

\* (mutation) a failed create_pool leaves self._pool as it was
CreateFails_keeps(t, e) ==
    /\ UNCHANGED pool
    /\ exc' = [exc EXCEPT ![t] = e]
    /\ hist' = [hist EXCEPT ![t].creates = @ + 1]
    /\ UNCHANGED hstate

\* except Exception as e: self._pool = None ... raise
CreateFails(t, e) ==
    /\ pool' = None
    /\ exc' = [exc EXCEPT ![t] = e]
    /\ hist' = [hist EXCEPT ![t].creates = @ + 1]
    /\ UNCHANGED hstate

ConnectCreate(t) ==
    /\ pc[t] = "c_create"
    /\ \/ \E h \in Fresh : CreateStores(t, h)
       \/ \E e \in DriverErrors(attempt[t]) : CreateFails(t, e)
    /\ Goto(t, "c_unlock")
    /\ UNCHANGED <<lock, retry_attempts, op, attempt, ref, held>>

\* (mutation) the lock is released only when create_pool returned
ConnectUnlock_on_success(t) ==
    /\ pc[t] = "c_unlock"
    /\ lock' = IF exc[t] = NoExc THEN None ELSE lock
    /\ IF op[t] = "connect"
       THEN /\ IF exc[t] = NoExc
               THEN Return(t, "ok", NoExc, NoExc)
               ELSE Return(t, "raise", exc[t], NoExc)
            /\ Returned(t)
       ELSE IF exc[t] = NoExc
            THEN /\ Goto(t, "a_load")
                 /\ UNCHANGED <<attempt, ref, exc, hist>>
            ELSE Except(t, exc[t])
    /\ UNCHANGED <<pool, hstate, retry_attempts, op, held>>

\* leaving the with block: the lock is released, then connect() returns or
\* re-raises
ConnectUnlock(t) ==
    /\ pc[t] = "c_unlock"
    /\ lock' = None
    /\ IF op[t] = "connect"
       THEN /\ IF exc[t] = NoExc
               THEN Return(t, "ok", NoExc, NoExc)
               ELSE Return(t, "raise", exc[t], NoExc)
            /\ Returned(t)
       ELSE IF exc[t] = NoExc
            THEN /\ Goto(t, "a_load")
                 /\ UNCHANGED <<attempt, ref, exc, hist>>
            ELSE Except(t, exc[t])
    /\ UNCHANGED <<pool, hstate, retry_attempts, op, held>>

\* ---------------------------------------------------- _safe_close_pool()
\* with self._lock: if self._pool is not None:
SafeCloseLock(t) ==
    /\ pc[t] = "sc_lock"
    /\ lock = None
    /\ lock' = t
    /\ Goto(t, IF pool # None THEN "sc_close" ELSE "sc_unlock")
    /\ UNCHANGED <<pool, hstate, retry_attempts, op, attempt, ref, exc,
                   held, hist>>

\* self._pool.close(): the driver closes the pool, or raises and leaves it
\* open (it refuses while connections are checked out); the error is logged
PoolClose(h) ==
    \/ /\ ~Busy(h)
       /\ hstate' = [hstate EXCEPT ![h] = "closed"]
    \/ UNCHANGED hstate

SafeCloseClose(t) ==
    /\ pc[t] = "sc_close"
    /\ PoolClose(pool)
    /\ hist' = [hist EXCEPT ![t].closes = @ + 1]
    /\ Goto(t, "sc_null")
    /\ UNCHANGED <<pool, lock, retry_attempts, op, attempt, ref, exc, held>>

\* (mutation) the finally clause does not null the handle out
SafeCloseNull_skip(t) ==
    /\ pc[t] = "sc_null"
    /\ Goto(t, "sc_unlock")
    /\ UNCHANGED <<pool, lock, hstate, retry_attempts, op, attempt, ref, exc,
                   held, hist>>

\* finally: self._pool = None
SafeCloseNull(t) ==
    /\ pc[t] = "sc_null"
    /\ pool' = None
    /\ Goto(t, "sc_unlock")
    /\ UNCHANGED <<lock, hstate, retry_attempts, op, attempt, ref, exc,
                   held, hist>>

\* (mutation) the first attempt is not counted
total_tries_short == retry_attempts

total_tries == 1 + retry_attempts

\* after the reset in acquire(): sleep and retry, or give up
AfterReset(t) ==
    IF attempt[t] < total_tries
    THEN /\ Goto(t, "a_sleep")
         /\ UNCHANGED <<attempt, ref, exc, hist>>
    ELSE /\ Return(t, "raise", DatabaseUnavailableError(attempt[t]), exc[t])
         /\ Returned(t)

\* (mutation) the reset returns with the lock still held
SafeCloseUnlock_keeps_lock(t) ==
    /\ pc[t] = "sc_unlock"
    /\ UNCHANGED lock
    /\ IF op[t] = "close"
       THEN /\ Return(t, "ok", NoExc, NoExc)
            /\ Returned(t)
       ELSE AfterReset(t)
    /\ UNCHANGED <<pool, hstate, retry_attempts, op, held>>

\* leaving the with block: the lock is released and the reset returns
SafeCloseUnlock(t) ==
    /\ pc[t] = "sc_unlock"
    /\ lock' = None
    /\ IF op[t] = "close"
       THEN /\ Return(t, "ok", NoExc, NoExc)
            /\ Returned(t)
       ELSE AfterReset(t)
    /\ UNCHANGED <<pool, hstate, retry_attempts, op, held>>

\* -------------------------------------------------------------- close()
CallClose(t) ==
    /\ Call(t, "close", "sc_lock")
    /\ hist' = [hist EXCEPT ![t] = NoHist]
    /\ UNCHANGED <<pool, lock, hstate, retry_attempts, attempt, held>>

\* ------------------------------------------------------------ acquire()
\* for attempt in range(1, total_tries + 1): with no attempt to make, the
\* loop is skipped, last_exc is None and the final raise is reached
CallAcquire(t) ==
    /\ held[t] = None
    /\ Call(t, "acquire", IF total_tries >= 1 THEN "a_check" ELSE "a_end")
    /\ attempt' = [attempt EXCEPT ![t] = IF total_tries >= 1 THEN 1 ELSE 0]
    /\ hist' = [hist EXCEPT ![t] =
                  [NoHist EXCEPT !.pool0 = pool,
                                 !.attempts = IF total_tries >= 1 THEN 1 ELSE 0]]
    /\ UNCHANGED <<pool, lock, hstate, retry_attempts, held>>

\* after the loop: if last_exc: raise last_exc; raise
\* DatabaseUnavailableError("... (unknown state)")
AcquireEnd(t) ==
    /\ pc[t] = "a_end"
    /\ IF exc[t] # NoExc
       THEN Return(t, "raise", exc[t], NoExc)
       ELSE Return(t, "raise", DatabaseUnavailableError(attempt[t]), NoExc)
    /\ Returned(t)
    /\ UNCHANGED <<pool, lock, hstate, retry_attempts, op, held>>

\* if self._pool is None: self.connect()
AcquireCheck(t) ==
    /\ pc[t] = "a_check"
    /\ IF pool = None
       THEN /\ Goto(t, "c_lock")
            /\ hist' = [hist EXCEPT ![t].connected = TRUE, ![t].creates = 0]
       ELSE /\ Goto(t, "a_load")
            /\ UNCHANGED hist
    /\ UNCHANGED <<pool, lock, hstate, retry_attempts, op, attempt, ref,
                   exc, held>>

\* self._pool.acquire: the attribute is read again; None has no acquire
AcquireLoad(t) ==
    /\ pc[t] = "a_load"
    /\ IF pool = None
       THEN Except(t, AttributeError(attempt[t]))
       ELSE /\ ref' = [ref EXCEPT ![t] = pool]
            /\ Goto(t, "a_request")
            /\ UNCHANGED <<attempt, exc, hist>>
    /\ UNCHANGED <<pool, lock, hstate, retry_attempts, op, held>>

\* what the driver can raise from handle h's acquire()
RequestErrors(h, n) ==
    IF hstate[h] = "open" THEN DriverErrors(n) ELSE {PoolNotOpen(n)}

\* return <handle>.acquire(): an open pool hands out a connection or the
\* driver raises; a closed pool always raises
AcquireRequest(t) ==
    /\ pc[t] = "a_request"
    /\ \/ /\ hstate[ref[t]] = "open"
          /\ held' = [held EXCEPT ![t] = ref[t]]
          /\ Return(t, "conn", NoExc, NoExc)
          /\ Returned(t)
       \/ /\ \E e \in RequestErrors(ref[t], attempt[t]) : Except(t, e)
          /\ UNCHANGED held
    /\ UNCHANGED <<pool, lock, hstate, retry_attempts, op>>

\* time.sleep(self._retry_delay); continue
AcquireSleep(t) ==
    /\ pc[t] = "a_sleep"
    /\ attempt' = [attempt EXCEPT ![t] = @ + 1]
    /\ exc' = [exc EXCEPT ![t] = NoExc]
    /\ ref' = [ref EXCEPT ![t] = None]
    /\ hist' = [hist EXCEPT ![t].sleeps = @ + 1, ![t].attempts = @ + 1,
                             ![t].connected = FALSE]
    /\ Goto(t, "a_check")
    /\ UNCHANGED <<pool, lock, hstate, retry_attempts, op, held>>

\* ------------------------------------------------- OracleUserRepository
RepoOps == {"create_user", "get_user"}

\* what a statement on a connection can raise: a lost connection, or an
\* error of the statement itself (any DatabaseError that is no connection
\* error)
QueryErrors == DriverErrors(0)

\* what the failed statement was, by the classifier: kept in hist.qfail
Failed(e) == IF is_connection_error(e) THEN "conn" ELSE "other"

\* conn = self._pool.acquire(), the first statement of create_user, of
\* get_user and of _Transaction.__enter__: the steps of acquire() follow
CallOuter(t, name) ==
    /\ pc[t] = "idle"
    /\ held[t] = None
    /\ outer' = [outer EXCEPT ![t] = name]
    /\ op' = [op EXCEPT ![t] = "acquire"]
    /\ pc' = [pc EXCEPT ![t] = IF retry_attempts >= 0 THEN "a_check"
                               ELSE "a_end"]
    /\ attempt' = [attempt EXCEPT ![t] = IF retry_attempts >= 0 THEN 1 ELSE 0]
    /\ hist' = [hist EXCEPT ![t] =
                  [NoHist EXCEPT !.pool0 = pool,
                                 !.attempts = IF retry_attempts >= 0 THEN 1
                                              ELSE 0]]
    /\ result' = [result EXCEPT ![t] = "none"]
    /\ raised' = [raised EXCEPT ![t] = NoExc]
    /\ cause' = [cause EXCEPT ![t] = NoExc]
    /\ exc' = [exc EXCEPT ![t] = NoExc]
    /\ ref' = [ref EXCEPT ![t] = None]
    /\ UNCHANGED <<pool, lock, hstate, retry_attempts, held, apart>>

CallRepo(t) == \E name \in RepoOps : CallOuter(t, name)

\* the repository / unit-of-work call ends with the outcome that stands in
\* result, raised and cause
Finish(t) ==
    /\ pc' = [pc EXCEPT ![t] = "idle"]
    /\ op' = [op EXCEPT ![t] = outer[t]]
    /\ outer' = [outer EXCEPT ![t] = "none"]
    /\ exc' = [exc EXCEPT ![t] = NoExc]

\* acquire() is called outside the try: what it raises leaves the method as
\* it is; the connection it returns goes to the statements in the try
Acquired(t) ==
    /\ pc[t] = "r_acquired"
    /\ IF result[t] = "raise"
       THEN /\ Finish(t)
            /\ hist' = [hist EXCEPT ![t].pool0 = None]
            /\ UNCHANGED <<result, raised, cause>>
       ELSE /\ pc' = [pc EXCEPT ![t] = IF outer[t] = "uow" THEN "u_body"
                                      ELSE "r_query"]
            /\ result' = [result EXCEPT ![t] = "none"]
            /\ hist' = [hist EXCEPT ![t].poolq = pool]
            /\ UNCHANGED <<op, outer, exc, raised, cause>>
    /\ UNCHANGED <<pool, lock, hstate, retry_attempts, attempt, ref, held,
                   apart>>

\* (mutation) the repository takes every error for a connection error
RepoExcept_all(t, e) ==
    /\ exc' = [exc EXCEPT ![t] = e]
    /\ op' = [op EXCEPT ![t] = "close"]
    /\ pc' = [pc EXCEPT ![t] = "sc_lock"]
    /\ hist' = [hist EXCEPT ![t].queries = @ + 1, ![t].pcloses = @ + 1,
                             ![t].closes = 0, ![t].qfail = Failed(e)]
    /\ UNCHANGED <<result, raised, cause>>

\* (mutation) the repository re-raises a connection error as it is, and
\* leaves the pool alone
RepoExcept_none(t, e) ==
    /\ pc' = [pc EXCEPT ![t] = "r_release"]
    /\ result' = [result EXCEPT ![t] = "raise"]
    /\ raised' = [raised EXCEPT ![t] = e]
    /\ cause' = [cause EXCEPT ![t] = NoExc]
    /\ hist' = [hist EXCEPT ![t].queries = @ + 1, ![t].qfail = Failed(e)]
    /\ UNCHANGED <<op, exc>>

\* except Exception as e: if is_connection_error(e): self._pool.close()
\* (the steps of _safe_close_pool follow); else: raise
RepoExcept(t, e) ==
    IF is_connection_error(e)
    THEN /\ exc' = [exc EXCEPT ![t] = e]
         /\ op' = [op EXCEPT ![t] = "close"]
         /\ pc' = [pc EXCEPT ![t] = "sc_lock"]
         /\ hist' = [hist EXCEPT ![t].queries = @ + 1, ![t].pcloses = @ + 1,
                                  ![t].closes = 0, ![t].qfail = Failed(e)]
         /\ UNCHANGED <<result, raised, cause>>
    ELSE /\ pc' = [pc EXCEPT ![t] = "r_release"]
         /\ result' = [result EXCEPT ![t] = "raise"]
         /\ raised' = [raised EXCEPT ![t] = e]
         /\ cause' = [cause EXCEPT ![t] = NoExc]
         /\ hist' = [hist EXCEPT ![t].queries = @ + 1,
                                  ![t].qfail = Failed(e)]
         /\ UNCHANGED <<op, exc>>

\* self._pool.close() is back:
\* raise DatabaseUnavailableError("Oracle connection lost") from e
RepoRaise(t) ==
    /\ pc[t] = "r_closed"
    /\ pc' = [pc EXCEPT ![t] = "r_release"]
    /\ result' = [result EXCEPT ![t] = "raise"]
    /\ raised' = [raised EXCEPT ![t] = DatabaseUnavailableError(0)]
    /\ cause' = [cause EXCEPT ![t] = exc[t]]
    /\ UNCHANGED <<pool, lock, hstate, retry_attempts, op, attempt, ref, exc,
                   held, hist, outer, apart>>

\* cur.execute("INSERT ... RETURNING id INTO :rid"); rid =
\* cur.getimplicitresults(); conn.commit(): the row is there for everyone.
\* An INSERT has no implicit results, rid is the empty list, so the id is
\* asked for by the second statement.
CreateInsert(t) ==
    /\ pc[t] = "r_query"
    /\ outer[t] = "create_user"
    /\ \/ /\ Len(users) < MaxRows
          /\ users' = Append(users, t)
          /\ pc' = [pc EXCEPT ![t] = "r_select"]
          /\ hist' = [hist EXCEPT ![t].queries = @ + 1,
                                   ![t].mine = Len(users) + 1]
          /\ UNCHANGED <<op, exc, result, raised, cause>>
       \/ /\ \E e \in QueryErrors : RepoExcept(t, e)
          /\ UNCHANGED users
    /\ UNCHANGED <<pool, lock, hstate, retry_attempts, attempt, ref, held,
                   outer, handlers, bus, probe>>

\* if not rid: cur.execute("SELECT MAX(id) FROM USERS"); rid = row[0];
\* return User(id=int(rid), ...)
CreateSelect(t) ==
    /\ pc[t] = "r_select"
    /\ \/ /\ pc' = [pc EXCEPT ![t] = "r_release"]
          /\ result' = [result EXCEPT ![t] = "user"]
          /\ hist' = [hist EXCEPT ![t].got = Len(users)]
          /\ UNCHANGED <<op, exc, raised, cause>>
       \/ \E e \in QueryErrors : RepoExcept(t, e)
    /\ UNCHANGED <<pool, lock, hstate, retry_attempts, attempt, ref, held,
                   outer, apart>>

\* get_user: cur.execute("SELECT ... WHERE id = :id"); row = cur.fetchone();
\* if not row: return None; return User(id=row[0], ...)
GetSelect(t) ==
    /\ pc[t] = "r_query"
    /\ outer[t] = "get_user"
    /\ \/ \E id \in 1..MaxRows :
             /\ pc' = [pc EXCEPT ![t] = "r_release"]
             /\ result' = [result EXCEPT ![t] = IF id <= Len(users)
                                                 THEN "user" ELSE "ok"]
             /\ hist' = [hist EXCEPT ![t].queries = @ + 1,
                                      ![t].got = IF id <= Len(users) THEN id
                                                 ELSE 0]
             /\ UNCHANGED <<op, exc, raised, cause>>
       \/ \E e \in QueryErrors : RepoExcept(t, e)
    /\ UNCHANGED <<pool, lock, hstate, retry_attempts, attempt, ref, held,
                   outer, apart>>

\* (mutation) the connection is given back only when the method returns
RepoRelease_on_success(t) ==
    /\ pc[t] = "r_release"
    /\ Finish(t)
    /\ IF result[t] = "raise"
       THEN UNCHANGED <<held, hist>>
       ELSE /\ held' = [held EXCEPT ![t] = None]
            /\ hist' = [hist EXCEPT ![t].releases = @ + 1, ![t].pool0 = None,
                                     ![t].poolq = None, ![t].mine = 0,
                                     ![t].got = 0]
    /\ UNCHANGED <<pool, lock, hstate, retry_attempts, attempt, ref, result,
                   raised, cause, apart>>

\* finally: try: conn.close() except Exception: pass. Whether close()
\* returns or raises, the method goes on to its outcome, and the connection
\* object is dropped with the method's frame.
RepoRelease(t) ==
    /\ pc[t] = "r_release"
    /\ Finish(t)
    /\ held' = [held EXCEPT ![t] = None]
    /\ hist' = [hist EXCEPT ![t].releases = @ + 1, ![t].pool0 = None,
                             ![t].poolq = None, ![t].mine = 0, ![t].got = 0]
    /\ UNCHANGED <<pool, lock, hstate, retry_attempts, attempt, ref, result,
                   raised, cause, apart>>

\* ----------------------------------------------------------- unit of work
\* with uow.transaction() as conn: __enter__ begins with
\* self._conn = self._pool.acquire()
CallUow(t) == CallOuter(t, "uow")

\* self._conn.autocommit = False; return self._conn; then the body of the
\* with statement runs: it ends normally, or it raises e
UowBody(t) ==
    /\ pc[t] = "u_body"
    /\ pc' = [pc EXCEPT ![t] = "u_exit"]
    /\ \/ exc' = [exc EXCEPT ![t] = NoExc]
       \/ \E e \in QueryErrors : exc' = [exc EXCEPT ![t] = e]
    /\ UNCHANGED <<pool, lock, hstate, retry_attempts, op, attempt, ref,
                   result, raised, cause, held, hist, outer, apart>>

\* (mutation) __exit__ commits whatever the body did
UowExit_commit(t) ==
    /\ pc[t] = "u_exit"
    /\ pc' = [pc EXCEPT ![t] = "u_close"]
    /\ hist' = [hist EXCEPT ![t].commits = @ + 1]
    /\ \/ /\ result' = [result EXCEPT ![t] = IF exc[t] = NoExc THEN "ok"
                                               ELSE "raise"]
          /\ raised' = [raised EXCEPT ![t] = exc[t]]
       \/ \E e \in QueryErrors :
             /\ result' = [result EXCEPT ![t] = "raise"]
             /\ raised' = [raised EXCEPT ![t] = e]
    /\ UNCHANGED <<pool, lock, hstate, retry_attempts, op, attempt, ref, exc,
                   cause, held, outer, apart>>

\* __exit__: if exc_type is None: self._conn.commit() else:
\* self._conn.rollback(). __exit__ returns None, so the body's error goes
\* on to the caller; an error of commit() / rollback() goes there instead.
UowExit(t) ==
    /\ pc[t] = "u_exit"
    /\ pc' = [pc EXCEPT ![t] = "u_close"]
    /\ hist' = IF exc[t] = NoExc
               THEN [hist EXCEPT ![t].commits = @ + 1]
               ELSE [hist EXCEPT ![t].rollbacks = @ + 1]
    /\ \/ /\ result' = [result EXCEPT ![t] = IF exc[t] = NoExc THEN "ok"
                                               ELSE "raise"]
          /\ raised' = [raised EXCEPT ![t] = exc[t]]
       \/ \E e \in QueryErrors :
             /\ result' = [result EXCEPT ![t] = "raise"]
             /\ raised' = [raised EXCEPT ![t] = e]
    /\ UNCHANGED <<pool, lock, hstate, retry_attempts, op, attempt, ref, exc,
                   cause, held, outer, apart>>

\* finally: self._conn.close(): an error of close() goes to the caller in
\* place of what stood; the connection object is dropped either way
UowClose(t) ==
    /\ pc[t] = "u_close"
    /\ Finish(t)
    /\ held' = [held EXCEPT ![t] = None]
    /\ hist' = [hist EXCEPT ![t].releases = @ + 1, ![t].pool0 = None,
                             ![t].poolq = None]
    /\ \/ UNCHANGED <<result, raised>>
       \/ \E e \in QueryErrors :
             /\ result' = [result EXCEPT ![t] = "raise"]
             /\ raised' = [raised EXCEPT ![t] = e]
    /\ UNCHANGED <<pool, lock, hstate, retry_attempts, attempt, ref, cause,
                   apart>>

\* ------------------------------------------------------------ the caller
\* conn.close(): the caller gives its connection back
ReleaseConn(t) ==
    /\ pc[t] = "idle"
    /\ held[t] # None
    /\ held' = [held EXCEPT ![t] = None]
    /\ UNCHANGED <<pool, lock, hstate, retry_attempts, op, pc, attempt, ref,
                   exc, result, raised, cause, hist, outer, apart>>

Next ==
    \E t \in Threads :
        \/ CallConnect(t)
        \/ ConnectLock(t)
        \/ ConnectCreate(t)
        \/ ConnectUnlock(t)
        \/ CallClose(t)
        \/ SafeCloseLock(t)
        \/ SafeCloseClose(t)
        \/ SafeCloseNull(t)
        \/ SafeCloseUnlock(t)
        \/ CallAcquire(t)
        \/ AcquireEnd(t)
        \/ AcquireCheck(t)
        \/ AcquireLoad(t)
        \/ AcquireRequest(t)
        \/ AcquireSleep(t)
        \/ ReleaseConn(t)

Spec == Init /\ [][Next]_vars

SpecSingle == InitSingle /\ [][Next]_vars

\* ------------------------------------------- a finite set of pool calls
\* Each thread makes one call of connect(), acquire() or close(), on a pool
\* that is as constructed or that the start-up connect() has filled.
InitLive ==
    /\ Started(Threads)
    /\ probe = NoProbe
    /\ \/ Absent
       \/ /\ pool = 1
          /\ hstate = [h \in Handles |-> IF h = 1 THEN "open"
                                        ELSE "uncreated"]

CallOnce(t) ==
    /\ op[t] = "none"
    /\ \/ CallConnect(t)
       \/ CallAcquire(t)
       \/ CallClose(t)

\* what thread t does next inside its call: every step is a statement of
\* the method, a wait for the lock, or a driver call, which returns or raises
Step(t) ==
    \/ ConnectLock(t)
    \/ ConnectCreate(t)
    \/ ConnectUnlock(t)
    \/ SafeCloseLock(t)
    \/ SafeCloseClose(t)
    \/ SafeCloseNull(t)
    \/ SafeCloseUnlock(t)
    \/ AcquireEnd(t)
    \/ AcquireCheck(t)
    \/ AcquireLoad(t)
    \/ AcquireRequest(t)
    \/ AcquireSleep(t)

NextLive ==
    \E t \in Threads :
        \/ CallOnce(t)
        \/ Step(t)
        \/ ReleaseConn(t)

\* a thread inside a call is scheduled again and again, and the lock goes to
\* a thread that waits for it once it stays free
SpecLive ==
    /\ InitLive
    /\ [][NextLive]_vars
    /\ \A t \in Threads : WF_vars(Step(t))

\* the pool with its users: the repository and the unit of work
NextRepo ==
    \/ Next
    \/ \E t \in Threads :
          \/ CallRepo(t)
          \/ Acquired(t)
          \/ CreateInsert(t)
          \/ CreateSelect(t)
          \/ GetSelect(t)
          \/ RepoRaise(t)
          \/ RepoRelease(t)
          \/ CallUow(t)
          \/ UowBody(t)
          \/ UowExit(t)
          \/ UowClose(t)

\* Request threads that only go through the repository, over a pool that is
\* configured not to retry (oracle_retry_attempts = 0): acquire() makes its
\* one attempt, and neither sleeps nor leaves the loop without an attempt.
InitNoRetry == Init /\ retry_attempts = 0

NextUsers ==
    \E t \in Threads :
        \/ ConnectLock(t)
        \/ ConnectCreate(t)
        \/ ConnectUnlock(t)
        \/ SafeCloseLock(t)
        \/ SafeCloseClose(t)
        \/ SafeCloseNull(t)
        \/ SafeCloseUnlock(t)
        \/ AcquireCheck(t)
        \/ AcquireLoad(t)
        \/ AcquireRequest(t)
        \/ CallRepo(t)
        \/ Acquired(t)
        \/ CreateInsert(t)
        \/ CreateSelect(t)
        \/ GetSelect(t)
        \/ RepoRaise(t)
        \/ RepoRelease(t)

SpecRepo == InitNoRetry /\ [][NextUsers]_vars

SpecRepoSingle == InitSingle /\ [][NextRepo]_vars

\* -------------------------------------------------------- the CommandBus
InitBus == InitFor({}) /\ probe = NoProbe

BusStep ==
    UNCHANGED <<pool, lock, hstate, retry_attempts, op, pc, attempt, ref, exc,
                result, raised, cause, held, hist, outer, users, probe>>

\* (mutation) register replaces the handler that is there
register_overwrites(c, h) ==
    /\ handlers' = [handlers EXCEPT ![c] = h]
    /\ bus' = [call |-> "register", type |-> c, res |-> "ok", ran |-> <<>>,
               gave |-> "none"]
    /\ BusStep

\* register(command_type, handler): if command_type in self._handlers:
\* raise ValueError; self._handlers[command_type] = handler
register(c, h) ==
    /\ IF handlers[c] # "none"
       THEN /\ bus' = [call |-> "register", type |-> c, res |-> "ValueError",
                       ran |-> <<>>, gave |-> "none"]
            /\ UNCHANGED handlers
       ELSE /\ handlers' = [handlers EXCEPT ![c] = h]
            /\ bus' = [call |-> "register", type |-> c, res |-> "ok",
                       ran |-> <<>>, gave |-> "none"]
    /\ BusStep

Register == \E c \in Types, h \in Handlers : register(c, h)

\* execute(command), c being type(command):
\* handler = self._handlers.get(type(command)); if handler is None: raise
\* ValueError; return handler(command)
execute(c) ==
    /\ IF handlers[c] = "none"
       THEN bus' = [call |-> "execute", type |-> c, res |-> "ValueError",
                    ran |-> <<>>, gave |-> "none"]
       ELSE \E v \in Outcomes :
               bus' = [call |-> "execute", type |-> c, res |-> v,
                       ran |-> <<handlers[c]>>, gave |-> v]
    /\ UNCHANGED handlers
    /\ BusStep

Execute == \E c \in Types : execute(c)

NextBus == Register \/ Execute

SpecBus == InitBus /\ [][NextBus]_vars

\* ---------------------------------------------- probing the classifier
\* is_connection_error is given one exception out of Exceptions
InitProbe ==
    /\ InitFor({})
    /\ probe \in [exc : Exceptions, answer : {"none"}]

\* the call is_connection_error(exc)
Classify ==
    /\ probe.answer = "none"
    /\ probe' = [probe EXCEPT !.answer = IF Answer(probe.exc) THEN "true"
                                      ELSE "false"]
    /\ UNCHANGED <<pool, lock, hstate, retry_attempts, op, pc, attempt, ref,
                   exc, result, raised, cause, held, hist, outer, users,
                   handlers, bus>>

NextProbe == Classify

SpecProbe == InitProbe /\ [][NextProbe]_vars

\* ================================================================ claims
Live == {h \in Handles : hstate[h] = "open"}

Completed(t, name) == pc[t] = "idle" /\ op[t] = name /\ result[t] # "none"

\* the step by which thread t's call returns or raises
Ends(t) == pc[t] \notin {"idle", "off"} /\ pc'[t] = "idle" /\ outer[t] = "none"

\* C1: in every reachable state at most one underlying pool handle is live
\* (created and not yet closed): connect() never creates and stores a handle
\* while an earlier one is still open.
C1_AtMostOneLiveHandle == Cardinality(Live) <= 1

\* C2: a reset closes the old handle before the stored handle becomes absent:
\* once the underlying close has been called, and the handle is about to be
\* nulled out, that handle is closed, also when the close raised.
C2_ResetClosesOldHandle ==
    \A t \in Threads : pc[t] = "sc_null" => hstate[pool] = "closed"

\* C3: a thread about to request a connection from the handle it loaded is
\* never doing so while another thread tears that handle down, and the handle
\* is still the stored, open one.
C3_NoRequestDuringTeardown ==
    \A t \in Threads :
        pc[t] = "a_request" =>
            /\ \A u \in Threads \ {t} :
                   pc[u] \in {"sc_close", "sc_null"} => pool # ref[t]
            /\ pool = ref[t]
            /\ hstate[ref[t]] = "open"

\* C7: every completed acquire() returned a connection of a live handle, or
\* raised DatabaseUnavailableError, or let a non-connection error of the
\* driver through; it never fails on dereferencing an absent handle.
C7_AcquireOutcomes ==
    [][\A t \in Threads :
         Ends(t) /\ op[t] = "acquire" =>
            \/ /\ result'[t] = "conn"
               /\ held'[t] # None
               /\ hstate'[held'[t]] = "open"
            \/ /\ result'[t] = "raise"
               /\ raised'[t].cls = "DatabaseUnavailableError"
            \/ /\ result'[t] = "raise"
               /\ raised'[t].cls \in {"DatabaseError", "InterfaceError"}
               /\ ~is_connection_error(raised'[t])]_vars

\* ---- one caller alone (SpecSingle)
Driver == {"DatabaseError", "InterfaceError"}

\* C4: an acquire() all of whose attempts fail with a connection-level error
\* makes exactly 1 + retry_attempts attempts (retry_attempts >= 0), starts
\* every attempt after the first with the handle absent, one reset behind each
\* earlier attempt, and ends raising DatabaseUnavailableError whose cause is
\* the last attempt's error.
C4_RetryExhaustion ==
    \A t \in Threads :
        /\ (pc[t] = "a_check" /\ attempt[t] > 1) =>
               /\ pool = None
               /\ hist[t].resets = attempt[t] - 1
               /\ hist[t].fails = attempt[t] - 1
        /\ ( /\ Completed(t, "acquire")
             /\ retry_attempts >= 0
             /\ hist[t].fails = hist[t].attempts
             /\ hist[t].resets = hist[t].fails ) =>
               /\ hist[t].attempts = 1 + retry_attempts
               /\ hist[t].sleeps = retry_attempts
               /\ result[t] = "raise"
               /\ raised[t].cls = "DatabaseUnavailableError"
               /\ is_connection_error(cause[t])
               /\ cause[t].at = hist[t].attempts

C4_Witness ==
    \E t \in Threads :
        /\ Completed(t, "acquire")
        /\ retry_attempts >= 1
        /\ raised[t].cls = "DatabaseUnavailableError"
        /\ hist[t].fails = 1 + retry_attempts
        /\ hist[t].resets = hist[t].fails

\* C5: an acquire() that fails once with a connection-level error and then
\* succeeds makes exactly 2 attempts, the second through a lazy connect(),
\* and returns a connection of the newly created handle without raising.
C5_RecoverOnSecondAttempt ==
    [][\A t \in Threads :
         ( /\ Ends(t) /\ op[t] = "acquire"
           /\ result'[t] = "conn"
           /\ hist[t].fails = 1 /\ hist[t].first = "conn" ) =>
             /\ retry_attempts >= 1
             /\ hist[t].attempts = 2
             /\ hist[t].resets = 1
             /\ hist[t].connected /\ hist[t].creates = 1
             /\ held'[t] = pool /\ hstate[pool] = "open"
             /\ held'[t] # hist[t].pool0
             /\ raised'[t] = NoExc]_vars

C5_Witness ==
    \E t \in Threads :
        /\ Completed(t, "acquire") /\ result[t] = "conn"
        /\ hist[t].fails = 1 /\ hist[t].attempts = 2
        /\ hist[t].connected /\ held[t] = pool

\* an acquire() ends whose first failure the classifier judged not to be
\* connection-level
EndsOnOther(t) == Ends(t) /\ op[t] = "acquire" /\ hist'[t].first = "other"

PassedThrough(t) ==
    /\ hist'[t].attempts = 1 /\ hist'[t].fails = 1
    /\ hist'[t].resets = 0 /\ hist'[t].sleeps = 0
    /\ result'[t] = "raise"
    /\ raised'[t].cls \in Driver /\ ~is_connection_error(raised'[t])
    /\ raised'[t].at = 1
    /\ cause'[t] = NoExc

\* C6 as claimed: an acquire() whose attempt fails with a non-connection
\* error makes exactly 1 attempt, resets nothing, does not sleep, leaves the
\* stored handle the same as before the call, and lets the error through.
C6_HandleSameAsBefore ==
    [][\A t \in Threads :
         EndsOnOther(t) => PassedThrough(t) /\ pool' = hist[t].pool0]_vars

\* C6 as amended: ... and leaves the stored handle as it was before the call
\* or, when it was absent then, stores the open handle that the attempt's
\* lazy connect() created.
C6_NonConnectionPassthrough ==
    [][\A t \in Threads :
         EndsOnOther(t) =>
            /\ PassedThrough(t)
            /\ \/ pool' = hist[t].pool0
               \/ /\ hist[t].pool0 = None
                  /\ hist[t].connected /\ hist[t].creates = 1
                  /\ pool' # None /\ hstate'[pool'] = "open"]_vars

C6_Witness ==
    \E t \in Threads :
        /\ Completed(t, "acquire") /\ result[t] = "raise"
        /\ hist[t].first = "other" /\ hist[t].attempts = 1
        /\ hist[t].connected /\ pool # None

\* ---- concurrent callers (Spec)
\* C8: a thread sleeping between attempts, or requesting a connection from a
\* handle, does not hold the lock; whoever holds it is creating or tearing
\* down the handle.
C8_LockOnlyForHandleMutation ==
    \A t \in Threads :
        /\ pc[t] \in {"a_sleep", "a_load", "a_request"} => lock # t
        /\ lock = t =>
              pc[t] \in {"c_create", "c_unlock", "sc_close", "sc_null",
                         "sc_unlock"}

\* while t sleeps, u holds a connection of the handle stored now, which can
\* only have been created after t's reset
C8_Witness ==
    \E t, u \in Threads :
        /\ pc[t] = "a_sleep"
        /\ Completed(u, "acquire") /\ result[u] = "conn"
        /\ hist[u].connected
        /\ pool # None /\ held[u] = pool

\* C9: connect() calls create_pool exactly once, under the lock: on success
\* the new handle is stored and open, on failure the handle is absent; then
\* the lock is released and connect() returns, or re-raises that failure.
C9_ConnectOnce ==
    [][\A t \in Threads :
         /\ (pc[t] = "c_create" /\ pc'[t] # "c_create") =>
               /\ lock = t /\ lock' = t
               /\ pc'[t] = "c_unlock"
               /\ hist'[t].creates = 1
               /\ exc'[t] = NoExc =>
                     /\ pool' # None
                     /\ hstate[pool'] = "uncreated" /\ hstate'[pool'] = "open"
               /\ exc'[t] # NoExc =>
                     /\ pool' = None /\ hstate' = hstate
                     /\ exc'[t].cls \in Driver
         /\ (pc[t] = "c_unlock" /\ pc'[t] # "c_unlock") =>
               /\ lock = t /\ lock' = None
               /\ pool' = pool /\ hstate' = hstate
               /\ hist[t].creates = 1
               /\ exc[t] # NoExc => pool = None
               /\ op[t] = "connect" =>
                     /\ Ends(t)
                     /\ IF exc[t] = NoExc
                        THEN result'[t] = "ok"
                        ELSE /\ result'[t] = "raise"
                             /\ raised'[t] = exc[t]
                             /\ cause'[t] = NoExc]_vars

C9_Witness ==
    \E t \in Threads :
        /\ Completed(t, "connect") /\ result[t] = "raise"
        /\ hist[t].creates = 1
        /\ pool = None /\ lock = None
        /\ Live # {}

\* C10: close() leaves the handle absent and never raises, also when the
\* underlying close fails; on an absent handle it changes nothing and calls
\* no underlying close; so a second close() right after the first finds the
\* handle absent, and the two close the underlying pool at most once.
C10_CloseIdempotent ==
    /\ [](\A t \in Threads : Completed(t, "close") =>
             /\ pool = None /\ lock = None
             /\ result[t] = "ok" /\ raised[t] = NoExc
             /\ hist[t].closes <= 1)
    /\ [][\A t \in Threads :
            /\ (pc[t] = "sc_lock" /\ pc'[t] # "sc_lock" /\ pool = None) =>
                  /\ pc'[t] = "sc_unlock"
                  /\ pool' = None /\ hstate' = hstate /\ hist' = hist
            /\ (pc[t] = "sc_unlock" /\ pc'[t] # "sc_unlock") =>
                  /\ pool = None /\ pool' = None /\ hstate' = hstate
                  /\ lock' = None
                  /\ op[t] = "close" =>
                        Ends(t) /\ result'[t] = "ok"]_vars

\* a close() that found the handle absent after an earlier one closed it
C10_Witness ==
    \E t \in Threads :
        /\ Completed(t, "close") /\ hist[t].closes = 0
        /\ \E h \in Handles : hstate[h] = "closed"
        /\ Live = {}

\* ------------------------------------------------------- the repository
\* the step by which thread t's create_user / get_user ends
RepoEnds(t) == outer[t] \in RepoOps /\ pc'[t] = "idle"

ResetSteps == {"sc_lock", "sc_close", "sc_null", "sc_unlock", "r_closed",
               "r_release"}

\* C11: when the statement run on the acquired connection fails with a
\* connection-level error, create_user / get_user closes the pool once (a
\* single caller finds self._pool absent when the method ends, so that the
\* next acquire() goes through connect()), raises DatabaseUnavailableError
\* whose cause is that error, and runs no statement and no acquire() again:
\* from the failure on it only resets the pool and gives the connection back.
C11_RepoConnectionLost ==
    /\ [](\A t \in Threads :
            outer[t] \in RepoOps /\ hist[t].qfail = "conn"
                => pc[t] \in ResetSteps)
    /\ [][\A t \in Threads :
            RepoEnds(t) /\ hist[t].qfail = "conn"
                => /\ pool' = None
                   /\ hist[t].pcloses = 1
                   /\ result'[t] = "raise"
                   /\ raised'[t].cls = "DatabaseUnavailableError"
                   /\ cause'[t] \in QueryErrors
                   /\ is_connection_error(cause'[t])]_vars

C11_Witness ==
    \E t \in Threads :
        /\ Completed(t, "get_user")
        /\ hist[t].qfail = "conn"
        /\ hist[t].pcloses = 1
        /\ raised[t].cls = "DatabaseUnavailableError"
        /\ pool = None

\* C12 as stated: when the statement fails with an error that is no
\* connection error, self._pool after the create_user / get_user call is
\* what it was before the call.
C12_HandleAsBeforeCall ==
    [][\A t \in Threads :
        RepoEnds(t) /\ hist[t].qfail = "other"
            => pool' = hist[t].pool0]_vars

\* C12: when the statement fails with an error that is no connection error,
\* create_user / get_user raises that error as it is, with no cause put on
\* it, makes no pool.close(), and for a single caller self._pool when the
\* method ends is what it was when acquire() returned the connection.
C12_RepoOtherError ==
    [][\A t \in Threads :
        RepoEnds(t) /\ hist[t].qfail = "other"
            => /\ result'[t] = "raise"
               /\ raised'[t] \in QueryErrors
               /\ ~is_connection_error(raised'[t])
               /\ cause'[t] = NoExc
               /\ hist[t].pcloses = 0
               /\ pool' = hist[t].poolq
               /\ pool' # None]_vars

C12_Witness ==
    \E t \in Threads :
        /\ Completed(t, "create_user")
        /\ hist[t].qfail = "other"
        /\ hist[t].queries = 2
        /\ raised[t] \in QueryErrors
        /\ pool # None

\* C13: a create_user / get_user call whose acquire() returned a connection
\* gives it back exactly once, by its last step, however it ends (an entity,
\* None, DatabaseUnavailableError, another error); that step leaves the
\* outcome as it stood, whether conn.close() returned or raised; a call
\* whose acquire() raised has nothing to give back; no connection is held
\* once the method is over.
C13_ReleasedOnce ==
    /\ [](\A t \in Threads :
            /\ outer[t] \in RepoOps => hist[t].releases = 0
            /\ pc[t] = "idle" /\ op[t] \in RepoOps => held[t] = None)
    /\ [][\A t \in Threads :
            RepoEnds(t)
                => /\ hist'[t].releases = IF held[t] # None THEN 1 ELSE 0
                   /\ held[t] = None <=> pc[t] = "r_acquired"
                   /\ held'[t] = None
                   /\ result[t] \in {"user", "ok", "raise"}
                   /\ result'[t] = result[t]
                   /\ raised'[t] = raised[t]
                   /\ cause'[t] = cause[t]]_vars

C13_Witness ==
    \E t \in Threads :
        /\ Completed(t, "create_user")
        /\ hist[t].qfail = "conn"
        /\ hist[t].releases = 1
        /\ held[t] = None

\* C15: the entity a create_user call returns has the id of the row that
\* this call inserted, the row with the username it was given, also when
\* other create_user calls run at the same time.
C15_ReturnsOwnRow ==
    [][\A t \in Threads :
        RepoEnds(t) /\ outer[t] = "create_user" /\ result[t] = "user"
            => /\ hist[t].got = hist[t].mine
               /\ hist[t].got \in 1..Len(users)
               /\ users[hist[t].got] = t]_vars

\* ------------------------------------------------------ the unit of work
\* the step by which thread t's unit-of-work scope, once entered, is left
UowEnds(t) == outer[t] = "uow" /\ pc[t] = "u_close" /\ pc'[t] = "idle"

\* C14: a unit-of-work scope that was entered and is left normally has
\* called commit() once and rollback() never; one left by an error of its
\* body has called rollback() once and commit() never, and an error reaches
\* the caller (the body's own, when rollback() and close() return); either
\* way the connection is given back exactly once, after commit() /
\* rollback(), also when that call raised; the scope makes no pool.close(),
\* no reset and no further acquire() attempt (for a single caller
\* self._pool at the end is what acquire() left).
C14_UnitOfWork ==
    /\ [](\A t \in Threads :
            outer[t] = "uow"
                => /\ hist[t].releases = 0
                   /\ pc[t] \in {"u_body", "u_exit", "u_close"}
                          => held[t] # None)
    /\ [][\A t \in Threads :
            UowEnds(t)
                => /\ hist[t].commits = IF exc[t] = NoExc THEN 1 ELSE 0
                   /\ hist[t].rollbacks = IF exc[t] = NoExc THEN 0 ELSE 1
                   /\ exc[t] # NoExc => result'[t] = "raise"
                   /\ exc[t] # NoExc /\ raised[t] = exc[t]
                          => raised'[t] \in QueryErrors
                   /\ result'[t] = "ok" => exc[t] = NoExc
                   /\ hist'[t].releases = 1
                   /\ held'[t] = None
                   /\ hist[t].pcloses = 0
                   /\ hist'[t].resets = hist[t].resets
                   /\ hist'[t].attempts = hist[t].attempts
                   /\ pool' = hist[t].poolq]_vars

\* a scope whose commit() raised: the error is out, the connection is back
C14_Witness ==
    \E t \in Threads :
        /\ Completed(t, "uow")
        /\ hist[t].commits = 1 /\ hist[t].rollbacks = 0
        /\ hist[t].releases = 1
        /\ result[t] = "raise"
        /\ held[t] = None

\* ------------------------------------------------- errors and their cause
\* C16: a DatabaseUnavailableError that acquire(), create_user or get_user
\* raised has the underlying error as its cause, whatever retry_attempts is.
C16_CauseCarried ==
    \A t \in Threads :
        /\ pc[t] = "idle"
        /\ op[t] \in {"acquire"} \cup RepoOps
        /\ result[t] = "raise"
        /\ raised[t].cls = "DatabaseUnavailableError"
        => cause[t] # NoExc

\* C19: when acquire() ends with DatabaseUnavailableError, self._pool is
\* absent as the error reaches the caller.
C19_ResetBeforeUnavailable ==
    [][\A t \in Threads :
        /\ Ends(t)
        /\ op[t] = "acquire"
        /\ result'[t] = "raise"
        /\ raised'[t].cls = "DatabaseUnavailableError"
        => pool' = None]_vars

\* C20: a reset closes and nulls only the handle whose failure set it off:
\* when a caller of acquire() is about to close what self._pool holds, that
\* is the handle its failed request went to (or nothing), and when the
\* repository is, it is the handle its connection came from (or nothing).
C20_ResetOnlyFailedHandle ==
    \A t \in Threads :
        pc[t] = "sc_close"
            => /\ op[t] = "acquire" /\ ref[t] # None
                  => pool \in {None, ref[t]}
               /\ op[t] = "close" /\ outer[t] \in RepoOps
                  => pool \in {None, held[t]}

\* ---------------------------------------------------------- the classifier
C17_Driver(x) == x.cls \in {"DatabaseError", "InterfaceError"}

\* the code the driver's error object carries, if there is one
C17_InSet(x) ==
    /\ x.args = "err"
    /\ x.code \in {3113, 3114, 1012, 12514, 12541, 12545, 12537, 12547}

C17_Signed(x) ==
    \E s \in { <<"D","P","I","-">>, <<"D","P","Y","-">>,
                <<"O","R","A","-","1","2","5">>,
                <<"O","R","A","-","0","3","1","1","3">>,
                <<"O","R","A","-","0","3","1","1","4">>,
                <<"O","R","A","-","0","1","0","1","2">> } :
        Contains(s, Upper(x.message))

\* C17: is_connection_error answers true for every DatabaseError /
\* InterfaceError whose code is one of the eight connection codes; false for
\* every one whose code is absent or another and whose upper-cased message
\* has none of the signatures; false for every exception of another class;
\* and the call changes nothing but its answer.
C17_Classifier ==
    /\ [](probe.answer # "none"
            => /\ C17_Driver(probe.exc) /\ C17_InSet(probe.exc)
                      => probe.answer = "true"
               /\ (C17_Driver(probe.exc) /\ ~C17_InSet(probe.exc)
                                          /\ ~C17_Signed(probe.exc))
                      => probe.answer = "false"
               /\ ~C17_Driver(probe.exc) => probe.answer = "false")
    /\ [][/\ probe'.exc = probe.exc
           /\ UNCHANGED <<pool, lock, hstate, retry_attempts, op, pc, attempt,
                          ref, exc, result, raised, cause, held, hist, outer,
                          users, handlers, bus>>]_vars

\* the code alone decides: a connection code under a message with no
\* signature
C17_Witness ==
    /\ probe.exc.cls = "InterfaceError"
    /\ probe.exc.args = "err"
    /\ probe.exc.code = 12547
    /\ probe.exc.message = <<"O","R","A","-","0","0","9","4","2">>
    /\ probe.answer = "true"

\* ----------------------------------------------------------- CommandBus
\* C18: a command type keeps the first handler registered for it: a
\* register for a type that has one raises ValueError and leaves the table
\* as it is, a register for a type that has none stores its handler for
\* that type alone; execute never changes the table; for a command whose
\* own type has no handler (whatever its base class has) it raises
\* ValueError and invokes nothing; for one whose type has a handler it
\* invokes that handler once and gives back what the handler gave.
C18_CommandBus ==
    [][/\ \A c \in Types : handlers[c] # "none" => handlers'[c] = handlers[c]
       /\ <<handlers, bus>> # <<handlers', bus'>> /\ bus'.call = "register"
             => IF handlers[bus'.type] # "none"
                THEN bus'.res = "ValueError" /\ handlers' = handlers
                ELSE /\ bus'.res = "ok"
                     /\ handlers'[bus'.type] \in Handlers
                     /\ \A c \in Types \ {bus'.type} :
                            handlers'[c] = handlers[c]
       /\ <<handlers, bus>> # <<handlers', bus'>> /\ bus'.call = "execute"
             => /\ handlers' = handlers
                /\ IF handlers[bus'.type] = "none"
                   THEN bus'.res = "ValueError" /\ bus'.ran = <<>>
                   ELSE /\ bus'.ran = <<handlers[bus'.type]>>
                        /\ bus'.res = bus'.gave
                        /\ bus'.res \in Outcomes]_vars

\* a second register for a type was refused, and a command of the subclass
\* of a type that has a handler was refused too
C18_Witness ==
    /\ handlers["CreateUserCommand"] = "handle_create_user"
    /\ handlers["Special"] = "none"
    /\ bus.call = "execute" /\ bus.type = "Special"
    /\ bus.res = "ValueError" /\ bus.ran = <<>>

\* ------------------------------------------------------------ termination
InCall(t) == pc[t] \notin {"idle", "off"}

\* C21: for two concurrent calls of connect(), acquire() and close(), every
\* driver call returning or raising: every call ends, that is, from some
\* point on no thread is inside a call (so no state is a deadlock); the lock
\* is held only inside the with blocks of connect() and
\* _safe_close_pool, so it is free of a thread that waits for it and of one
\* whose call has ended; and an acquire() is never beyond attempt
\* 1 + retry_attempts, and ends with a connection or an error.
C21_EveryCallEnds ==
    /\ [](\A t \in Threads :
            /\ pc[t] \in {"c_lock", "sc_lock"} => lock # t
            /\ ~InCall(t) => lock # t
            /\ lock = t <=> pc[t] \in {"c_create", "c_unlock", "sc_close",
                                       "sc_null", "sc_unlock"}
            /\ op[t] = "acquire"
                  => /\ attempt[t] <= 1 + retry_attempts
                     /\ hist[t].attempts <= 1 + retry_attempts
                                          \/ hist[t].attempts = 0
            /\ Completed(t, "acquire") => result[t] \in {"conn", "raise"})
    /\ <>[](\A t \in Threads : ~InCall(t))

\* in its last attempt, a caller of acquire() waits for the lock that the
\* other caller holds
C21_Witness ==
    \E t, u \in Threads :
        /\ op[t] = "acquire" /\ pc[t] \in {"c_lock", "sc_lock"}
        /\ retry_attempts >= 1 /\ attempt[t] = 1 + retry_attempts
        /\ u # t /\ lock = u

====
